---- MODULE Spec2Model ----
(***************************************************************************)
(* Model of dicom2pdf (src/app.py): the Streamlit script that previews a   *)
(* batch of DICOM files and converts it into one PDF.                      *)
(*                                                                         *)
(*   Spec       the module-level script (lines 139-197) and the function   *)
(*              convert_to_pdf (lines 56-99), which is also run on its own *)
(*              (mode "call") so that its empty-list branch is exercised;  *)
(*   SpecNorm   normalize_image (lines 45-53) on bounded pixel grids;      *)
(*   SpecTitle  the page title built in convert_to_pdf (lines 78-88).      *)
(*                                                                         *)
(* External libraries are modelled by what the script observes of them:    *)
(* read_dicom_image yields an image or (None, None); normalising or        *)
(* rendering a decoded image may raise (a multi-frame pixel array is not a *)
(* valid imshow input); PdfPages leaves a non-empty file once a page was   *)
(* saved, and for a document without pages either a small file or no file  *)
(* at all, depending on the matplotlib release (keep_empty).               *)
(***************************************************************************)
EXTENDS Integers, Sequences, FiniteSets, TLC

\* ------------------------------------------------------------------ bounds
MaxFiles == 3       \* files in one upload
SampleMin == 1      \* raw samples range over -SampleMin .. SampleMax
SampleMax == 3
MaxSamples == 3     \* samples in one pixel grid (row-major)
MaxName == 3        \* characters in a patient name
MaxDesc == 2        \* characters in a series description

\* ------------------------------------------------------- program constants
preview_limit == 10

VARIABLES
    mode,           \* "script": the Streamlit script runs; "call": convert_to_pdf alone
    dicom_files,    \* the uploaded files, in upload order
    keep_empty,     \* PdfPages keeps a file for a document without pages
    pc,             \* control location
    i,              \* position of the preview loop in preview_files
    k,              \* position of convert_to_pdf's loop in dicom_files
    reads,          \* calls of read_dicom_image so far
    dec,            \* what each file met in convert_to_pdf's loop, in order
    writer,         \* PdfPages: "unopened", "open" or "closed"
    closes,         \* times PdfPages.close ran
    pages,          \* pages saved into the document (the file each came from)
    artifact,       \* what is at output_pdf_path
    result,         \* convert_to_pdf's return value: "unset", "True", "False"
    failure_code,   \* -1 while unassigned
    shown,          \* "none", "info", "success", "error": st.info/success/error
    download,       \* the download button is offered
    raised,         \* "none", or where an exception left the program
    image,          \* normalize_image: the raw samples
    contrast,       \* normalize_image: contrast_factor in halves (1 is 0.5)
    norm_img,       \* normalize_image: the returned samples
    patient_name,   \* title: metadata["patient_name"]
    series_description, \* title: metadata["series_description"]
    title,          \* title: the string built
    overlay         \* title: fig.suptitle was called

vars == <<mode, dicom_files, keep_empty, pc, i, k, reads, dec, writer, closes,
          pages, artifact, result, failure_code, shown, download, raised,
          image, contrast, norm_img, patient_name, series_description,
          title, overlay>>

batchVars == <<mode, dicom_files, keep_empty, i, k, reads, dec, writer, closes,
               pages, artifact, result, failure_code, shown, download, raised>>
normVars == <<image, contrast, norm_img>>
titleVars == <<patient_name, series_description, title, overlay>>

\* --------------------------------------------------------------- helpers
Min(a, b) == IF a <= b THEN a ELSE b
Max(a, b) == IF a >= b THEN a ELSE b

RECURSIVE SeqsUpTo(_, _)
SeqsUpTo(S, n) ==
    IF n = 0 THEN {<<>>}
    ELSE LET shorter == SeqsUpTo(S, n - 1)
         IN  shorter \cup {Append(s, x) : s \in shorter, x \in S}

Distinct(s) == \A a, b \in 1..Len(s) : a # b => s[a] # s[b]

\* An upload: distinct file handles in any order.
FileIds == 1..MaxFiles
FileLists == {s \in SeqsUpTo(FileIds, MaxFiles) : Distinct(s)}

\* What one file meets in a loop body: read_dicom_image returns (None, None);
\* the image is decoded and the body runs through; the body raises.
Outcomes == {"DecodeFailure", "Rendered", "Raises"}

\* ------------------------------------------------ the document and its file
\* output_pdf_path.exists(), .is_file() and .stat().st_size == 0 (lines 176-180)
\* on what is at the path.
ArtifactKinds == {"missing", "directory", "empty", "nonempty"}
Exists(a) == a # "missing"
IsFile(a) == a \in {"empty", "nonempty"}
SizeIsZero(a) == a = "empty"

\* Leaving the `with PdfPages(...)` block (line 65) closes the writer, on a
\* normal exit and on an exception alike: exc tells which.
Finalizes_OnlyOnReturn(exc) == ~exc
Finalizes(exc) == TRUE

\* PdfPages.close: a document with pages is a non-empty file; one without
\* pages is a small file or no file (keep_empty).
ClosedArtifact(pgs, art, keep) ==
    IF pgs # <<>> THEN art
    ELSE IF keep THEN "nonempty" ELSE "missing"

\* `if not dicom_files: return False` (lines 62-63).
EmptyGuard_Missing(files) == FALSE
EmptyGuard(files) == files = <<>>

\* `return True` after the with block (line 99), whatever was appended.
LoopReturn_PagesBased(pgs) == IF pgs = <<>> THEN "False" ELSE "True"
LoopReturn(pgs) == "True"

\* `continue` (lines 68-69): the loop goes on with the next file.
AfterDecodeFailure_Break(pos, n) == n + 1
AfterDecodeFailure(pos, n) == pos + 1

\* pdf.savefig (lines 90-96): the page is the document's next page.
SavePage(pgs, f) == Append(pgs, f)

\* Lines 144-150: count = min(preview_limit, len(dicom_files)) never exceeds
\* preview_limit, so the random.sample branch is not taken; it is kept here
\* as some count-long selection.
PreviewFiles(files) ==
    LET count == Min(preview_limit, Len(files))
    IN  IF count <= preview_limit THEN files ELSE SubSeq(files, 1, count)

\* Lines 173-181. The four tests run one after the other; stat() on a path
\* that does not exist raises FileNotFoundError.
FailureCode(res, art) ==
    LET b0 == IF res # "True" THEN 1 ELSE 0
        b1 == IF ~Exists(art) THEN 2 ELSE 0
        b2 == IF ~IsFile(art) THEN 4 ELSE 0
    IN  IF ~Exists(art)
        THEN [raises |-> TRUE, code |-> b0 + b1 + b2]
        ELSE [raises |-> FALSE,
              code |-> b0 + b1 + b2 + (IF SizeIsZero(art) THEN 8 ELSE 0)]

\* ------------------------------------------------------------------- Init
IdleNorm ==
    /\ image = <<>>
    /\ contrast = 0
    /\ norm_img = <<>>

IdleTitle ==
    /\ patient_name = <<>>
    /\ series_description = <<>>
    /\ title = <<>>
    /\ overlay = FALSE

IdleBatch ==
    /\ mode = "none"
    /\ dicom_files = <<>>
    /\ keep_empty = FALSE
    /\ i = 0
    /\ k = 0
    /\ reads = 0
    /\ dec = <<>>
    /\ writer = "unopened"
    /\ closes = 0
    /\ pages = <<>>
    /\ artifact = "missing"
    /\ result = "unset"
    /\ failure_code = -1
    /\ shown = "none"
    /\ download = FALSE
    /\ raised = "none"

Init ==
    /\ mode \in {"script", "call"}
    /\ dicom_files \in FileLists
    /\ keep_empty \in BOOLEAN
    /\ pc = IF mode = "script" THEN "script" ELSE "convert"
    /\ i = 0
    /\ k = 0
    /\ reads = 0
    /\ dec = <<>>
    /\ writer = "unopened"
    /\ closes = 0
    /\ pages = <<>>
    /\ artifact = "missing"
    /\ result = "unset"
    /\ failure_code = -1
    /\ shown = "none"
    /\ download = FALSE
    /\ raised = "none"
    /\ IdleNorm
    /\ IdleTitle

\* ------------------------------------------------- the script, lines 139-197
\* `else: st.info(...)` (lines 196-197): nothing was uploaded.
ScriptNoFiles ==
    /\ pc = "script"
    /\ dicom_files = <<>>
    /\ shown' = "info"
    /\ pc' = "done"
    /\ UNCHANGED <<mode, dicom_files, keep_empty, i, k, reads, dec, writer,
                   closes, pages, artifact, result, failure_code, download,
                   raised>>
    /\ UNCHANGED <<normVars, titleVars>>

\* `if dicom_files:` (lines 139-152): the spinner, the temporary directory.
ScriptBegin ==
    /\ pc = "script"
    /\ dicom_files # <<>>
    /\ pc' = "preview"
    /\ i' = 1
    /\ UNCHANGED <<mode, dicom_files, keep_empty, k, reads, dec, writer,
                   closes, pages, artifact, result, failure_code, shown,
                   download, raised>>
    /\ UNCHANGED <<normVars, titleVars>>

\* One pass of the preview loop (lines 153-163).
PreviewFile ==
    /\ pc = "preview"
    /\ i <= Len(PreviewFiles(dicom_files))
    /\ reads' = reads + 1
    /\ \E o \in Outcomes :
        IF o = "Raises"
        THEN /\ pc' = "raised"
             /\ raised' = "preview"
             /\ i' = i
        ELSE /\ pc' = pc
             /\ raised' = raised
             /\ i' = i + 1
    /\ UNCHANGED <<mode, dicom_files, keep_empty, k, dec, writer, closes,
                   pages, artifact, result, failure_code, shown, download>>
    /\ UNCHANGED <<normVars, titleVars>>

\* Lines 164-171: the preview is over, convert_to_pdf is called.
CallConvert ==
    /\ pc = "preview"
    /\ i > Len(PreviewFiles(dicom_files))
    /\ pc' = "convert"
    /\ UNCHANGED batchVars
    /\ UNCHANGED <<normVars, titleVars>>

\* ------------------------------------------- convert_to_pdf, lines 56-99
ConvertEmpty ==
    /\ pc = "convert"
    /\ EmptyGuard(dicom_files)
    /\ result' = "False"
    /\ pc' = "returned"
    /\ UNCHANGED <<mode, dicom_files, keep_empty, i, k, reads, dec, writer,
                   closes, pages, artifact, failure_code, shown, download,
                   raised>>
    /\ UNCHANGED <<normVars, titleVars>>

\* `with PdfPages(output_pdf) as pdf:` (line 65).
ConvertOpen ==
    /\ pc = "convert"
    /\ ~EmptyGuard(dicom_files)
    /\ writer' = "open"
    /\ k' = 1
    /\ pc' = "loop"
    /\ UNCHANGED <<mode, dicom_files, keep_empty, i, reads, dec, closes,
                   pages, artifact, result, failure_code, shown, download,
                   raised>>
    /\ UNCHANGED <<normVars, titleVars>>

\* One pass of the loop (lines 66-97) in which the file does not decode.
LoopSkip ==
    /\ pc = "loop"
    /\ k <= Len(dicom_files)
    /\ reads' = reads + 1
    /\ dec' = Append(dec, "DecodeFailure")
    /\ k' = AfterDecodeFailure(k, Len(dicom_files))
    /\ UNCHANGED <<mode, dicom_files, keep_empty, i, writer, closes, pages,
                   artifact, result, failure_code, shown, download, raised>>
    /\ UNCHANGED <<pc, normVars, titleVars>>

\* One pass in which the file decodes and its page is saved.
LoopRender ==
    /\ pc = "loop"
    /\ k <= Len(dicom_files)
    /\ writer = "open"
    /\ reads' = reads + 1
    /\ dec' = Append(dec, "Rendered")
    /\ pages' = SavePage(pages, dicom_files[k])
    /\ artifact' = "nonempty"
    /\ k' = k + 1
    /\ UNCHANGED <<mode, dicom_files, keep_empty, i, writer, closes, result,
                   failure_code, shown, download, raised>>
    /\ UNCHANGED <<pc, normVars, titleVars>>

\* One pass in which normalize_image, imshow, the title or savefig raises:
\* the with block is left by the exception, which convert_to_pdf does not
\* catch, and neither does the script.
LoopRaise ==
    /\ pc = "loop"
    /\ k <= Len(dicom_files)
    /\ reads' = reads + 1
    /\ dec' = Append(dec, "Raises")
    /\ IF Finalizes(TRUE)
       THEN /\ writer' = "closed"
            /\ closes' = closes + 1
            /\ artifact' = ClosedArtifact(pages, artifact, keep_empty)
       ELSE UNCHANGED <<writer, closes, artifact>>
    /\ pc' = "raised"
    /\ raised' = "convert"
    /\ UNCHANGED <<mode, dicom_files, keep_empty, i, k, pages, result,
                   failure_code, shown, download>>
    /\ UNCHANGED <<normVars, titleVars>>

\* The loop is over: the with block is left, `return True` (line 99).
LoopEnd ==
    /\ pc = "loop"
    /\ k > Len(dicom_files)
    /\ IF Finalizes(FALSE)
       THEN /\ writer' = "closed"
            /\ closes' = closes + 1
            /\ artifact' = ClosedArtifact(pages, artifact, keep_empty)
       ELSE UNCHANGED <<writer, closes, artifact>>
    /\ result' = LoopReturn(pages)
    /\ pc' = "returned"
    /\ UNCHANGED <<mode, dicom_files, keep_empty, i, k, reads, dec, pages,
                   failure_code, shown, download, raised>>
    /\ UNCHANGED <<normVars, titleVars>>

\* ------------------------------------------ back in the script, lines 173-195
Checks ==
    /\ pc = "returned"
    /\ mode = "script"
    /\ LET fc == FailureCode(result, artifact)
       IN  /\ failure_code' = fc.code
           /\ pc' = IF fc.raises THEN "raised" ELSE "checked"
           /\ raised' = IF fc.raises THEN "stat" ELSE raised
    /\ UNCHANGED <<mode, dicom_files, keep_empty, i, k, reads, dec, writer,
                   closes, pages, artifact, result, shown, download>>
    /\ UNCHANGED <<normVars, titleVars>>

Report ==
    /\ pc = "checked"
    /\ IF failure_code = 0
       THEN /\ shown' = "success"
            /\ download' = TRUE
       ELSE /\ shown' = "error"
            /\ download' = FALSE
    /\ pc' = "done"
    /\ UNCHANGED <<mode, dicom_files, keep_empty, i, k, reads, dec, writer,
                   closes, pages, artifact, result, failure_code, raised>>
    /\ UNCHANGED <<normVars, titleVars>>

Next ==
    \/ ScriptNoFiles
    \/ ScriptBegin
    \/ PreviewFile
    \/ CallConvert
    \/ ConvertEmpty
    \/ ConvertOpen
    \/ LoopSkip
    \/ LoopRender
    \/ LoopRaise
    \/ LoopEnd
    \/ Checks
    \/ Report

Spec == Init /\ [][Next]_vars

\* ------------------------------------------- normalize_image, lines 45-53
\* float64 values are kept in hundredths: the percentiles of integer samples
\* are exact in this unit, quotients and roots are rounded down to it.
ONE == 100

\* A float64 sample: a number of hundredths, or nan.
Num(x) == [nan |-> FALSE, v |-> x]
NaN == [nan |-> TRUE, v |-> 0]

Samples == (0 - SampleMin)..SampleMax
Grids == SeqsUpTo(Samples, MaxSamples) \ {<<>>}

\* contrast_factor in halves: 0.5, 1.0 and 1.5, the ends and the middle of
\* the slider (line 136).
ContrastFactors == {1, 2, 3}

RECURSIVE Insert(_, _)
Insert(x, s) ==
    IF s = <<>> THEN <<x>>
    ELSE IF x <= Head(s) THEN <<x>> \o s
    ELSE <<Head(s)>> \o Insert(x, Tail(s))

RECURSIVE Sorted(_)
Sorted(s) == IF s = <<>> THEN <<>> ELSE Insert(Head(s), Sorted(Tail(s)))

\* np.percentile(a, q), linear interpolation, of samples given in hundredths:
\* the value at the virtual index q/100 * (n - 1) of the sorted samples.
Percentile(a, q) ==
    LET srt == Sorted(a)
        n == Len(a)
        lo == (q * (n - 1)) \div 100
        fr == (q * (n - 1)) % 100
        hi == Min(lo + 1, n - 1)
    IN  srt[lo + 1] + (fr * (srt[hi + 1] - srt[lo + 1])) \div 100

\* np.clip(x, lo, hi).
Clip(x, lo, hi) == Min(Max(x, lo), hi)

RECURSIVE SeqMin(_)
SeqMin(s) == IF Len(s) = 1 THEN s[1] ELSE Min(Head(s), SeqMin(Tail(s)))
RECURSIVE SeqMax(_)
SeqMax(s) == IF Len(s) = 1 THEN s[1] ELSE Max(Head(s), SeqMax(Tail(s)))

\* Products and square roots of hundredths.
FMul(a, b) == (a * b) \div ONE
ISqrt(n) == CHOOSE r \in 0..(n + 1) : r * r <= n /\ n < (r + 1) * (r + 1)
FSqrt(x) == ISqrt(x * ONE)

RECURSIVE IPow(_, _)
IPow(x, n) == IF n = 0 THEN ONE ELSE FMul(x, IPow(x, n - 1))

\* np.power(x, h / 2): a negative base with a fractional exponent is nan.
Power(x, h) ==
    IF h % 2 = 0 THEN Num(IPow(x, h \div 2))
    ELSE IF x < 0 THEN NaN
    ELSE Num(FMul(IPow(x, (h - 1) \div 2), FSqrt(x)))

\* Line 51: the clipped samples are rescaled only when they differ.
Rescales(img_min, img_max) == img_max > img_min

\* Line 52.
Rescale(x, img_min, img_max) == ((x - img_min) * ONE) \div (img_max - img_min)

normalize_image(image_array, contrast_factor) ==
    LET flt == [j \in 1..Len(image_array) |-> image_array[j] * ONE]
        p2 == Percentile(flt, 2)
        p98 == Percentile(flt, 98)
        clipped == [j \in 1..Len(flt) |-> Clip(flt[j], p2, p98)]
        img_min == SeqMin(clipped)
        img_max == SeqMax(clipped)
        scaled == IF Rescales(img_min, img_max)
                  THEN [j \in 1..Len(clipped) |->
                           Rescale(clipped[j], img_min, img_max)]
                  ELSE clipped
    IN  [j \in 1..Len(scaled) |-> Power(scaled[j], contrast_factor)]

InitNorm ==
    /\ pc = "normalize"
    /\ image \in Grids
    /\ contrast \in ContrastFactors
    /\ norm_img = <<>>
    /\ IdleBatch
    /\ IdleTitle

Normalize ==
    /\ pc = "normalize"
    /\ norm_img' = normalize_image(image, contrast)
    /\ pc' = "normalized"
    /\ UNCHANGED <<image, contrast, batchVars, titleVars>>

NextNorm == Normalize

SpecNorm == InitNorm /\ [][NextNorm]_vars

\* ------------------------------------------ the page title, lines 78-88
\* Strings are sequences of characters.
Chars == {"^", "_", " ", "a"}
Whitespace == {" "}

Names == SeqsUpTo(Chars, MaxName)
Descs == SeqsUpTo(Chars, MaxDesc)

RECURSIVE LStrip(_)
LStrip(s) ==
    IF s # <<>> /\ Head(s) \in Whitespace THEN LStrip(Tail(s)) ELSE s

RECURSIVE RStrip(_)
RStrip(s) ==
    IF s # <<>> /\ s[Len(s)] \in Whitespace
    THEN RStrip(SubSeq(s, 1, Len(s) - 1))
    ELSE s

\* str.strip().
Strip(s) == RStrip(LStrip(s))

\* str.replace(old, new) for single characters.
Replace(s, old, new) == [j \in 1..Len(s) |-> IF s[j] = old THEN new ELSE s[j]]

\* Lines 79-81 and 83-85: strip first, then replace the separators.
Clean(s) == Replace(Replace(Strip(s), "^", " "), "_", " ")

\* Lines 78-86.
Title(name, desc) ==
    IF desc # <<>>
    THEN Clean(name) \o <<" ", "|", " ">> \o Clean(desc)
    ELSE Clean(name)

\* Line 87: `if title:`.
Overlays(t) == t # <<>>

InitTitle ==
    /\ pc = "title"
    /\ patient_name \in Names
    /\ series_description \in Descs
    /\ title = <<>>
    /\ overlay = FALSE
    /\ IdleBatch
    /\ IdleNorm

MakeTitle ==
    /\ pc = "title"
    /\ title' = Title(patient_name, series_description)
    /\ overlay' = Overlays(Title(patient_name, series_description))
    /\ pc' = "titled"
    /\ UNCHANGED <<patient_name, series_description, batchVars, normVars>>

NextTitle == MakeTitle

SpecTitle == InitTitle /\ [][NextTitle]_vars

\* ================================================================= claims
\* The files of the first Len(d) whose pass of the loop saved a page, in order.
RECURSIVE Surviving(_, _)
Surviving(files, d) ==
    IF d = <<>> \/ files = <<>> THEN <<>>
    ELSE IF Head(d) = "Rendered"
         THEN <<Head(files)>> \o Surviving(Tail(files), Tail(d))
         ELSE Surviving(Tail(files), Tail(d))

Count(d, o) == Cardinality({j \in 1..Len(d) : d[j] = o})

Bit(c, n) == (c \div (2 ^ n)) % 2 = 1

\* C1: when convert_to_pdf has returned from its loop, every file was read,
\* the document's pages are the input files whose decode did not fail, in
\* input order, and their number is the number of files minus the number of
\* decode failures.
C1_PagesAreDecodedFilesInOrder ==
    result = "True" =>
        /\ Len(dec) = Len(dicom_files)
        /\ pages = Surviving(dicom_files, dec)
        /\ Len(pages) = Len(dicom_files) - Count(dec, "DecodeFailure")

\* Three files, the second one undecodable: two pages, file 1 then file 3.
C1_Witness ==
    /\ result = "True"
    /\ dec = <<"Rendered", "DecodeFailure", "Rendered">>
    /\ pages = <<dicom_files[1], dicom_files[3]>>
    /\ dicom_files[1] > dicom_files[3]

\* C2: a run of the script on a non-empty upload in which every file fails
\* to decode ends with the error message, a non-zero failure code and no
\* download.
C2_ZeroPagesIsFailure ==
    ( /\ mode = "script"
      /\ dicom_files # <<>>
      /\ Len(dec) = Len(dicom_files)
      /\ Count(dec, "DecodeFailure") = Len(dec)
      /\ pc \in {"done", "raised"} )
    => ( /\ pc = "done"
         /\ shown = "error"
         /\ failure_code > 0
         /\ ~download )

\* C3: with an empty file list nothing runs: no file is read, the writer is
\* never opened, nothing is at the output path, no success is shown; the
\* script ends with its info message and convert_to_pdf returns False.
C3_EmptyListFailsWithoutRunning ==
    dicom_files = <<>> =>
        /\ pc \in {"script", "convert", "done", "returned"}
        /\ reads = 0
        /\ dec = <<>>
        /\ writer = "unopened"
        /\ closes = 0
        /\ pages = <<>>
        /\ artifact = "missing"
        /\ shown # "success"
        /\ ~download
        /\ raised = "none"
        /\ (mode = "script" /\ pc = "done" => shown = "info")
        /\ (mode = "call" /\ pc = "returned" => result = "False")

C3_Witness ==
    /\ dicom_files = <<>>
    /\ mode = "call"
    /\ pc = "returned"
    /\ result = "False"
    /\ writer = "unopened"

\* C4: once convert_to_pdf has returned to the script, the four tests yield
\* a failure code, whatever is at the output path: bit 0 for a False result,
\* bit 1 for a missing artifact, bit 2 for one that is no regular file, bit 3
\* for an empty one; success is shown exactly for code 0, the error otherwise.
C4_ChecksComposeTheCode ==
    (mode = "script" /\ result # "unset" /\ pc # "returned") =>
        /\ raised = "none"
        /\ Bit(failure_code, 0) <=> result # "True"
        /\ Bit(failure_code, 1) <=> ~Exists(artifact)
        /\ Bit(failure_code, 2) <=> ~IsFile(artifact)
        /\ Bit(failure_code, 3) <=> SizeIsZero(artifact)
        /\ pc = "done" => /\ shown = "success" <=> failure_code = 0
                          /\ shown = "error" <=> failure_code # 0

\* C5: a run of the script on a non-empty upload lets no exception out, and
\* ends either with the success message and the download or with the error
\* message and a non-zero failure code.
C5_NoExceptionEscapes ==
    (mode = "script" /\ dicom_files # <<>>) =>
        /\ raised = "none"
        /\ pc = "done" => \/ shown = "success" /\ download /\ failure_code = 0
                          \/ shown = "error" /\ ~download /\ failure_code > 0

\* C6: once convert_to_pdf has left its with block, by the end of the loop
\* or by an exception in some file's pass, the writer was closed exactly
\* once and the document holds the pages saved before; a closed writer stays
\* closed and takes no further page.
ConvertExited ==
    writer # "unopened" /\ (result # "unset" \/ raised = "convert")

C6_WriterFinalizedOnce ==
    /\ [](ConvertExited =>
            /\ writer = "closed"
            /\ closes = 1
            /\ pages = Surviving(dicom_files, dec))
    /\ [][writer = "closed" =>
            /\ writer' = "closed"
            /\ closes' = closes
            /\ pages' = pages]_vars

\* A pass raises after a page was saved.
C6_Witness ==
    /\ raised = "convert"
    /\ Len(pages) >= 1
    /\ Len(dec) < Len(dicom_files)
    /\ writer = "closed"
    /\ closes = 1

\* C7: every sample normalize_image returns is a number of [0, 1].
C7_OutputInUnitInterval ==
    pc = "normalized" =>
        \A j \in 1..Len(norm_img) :
            /\ ~norm_img[j].nan
            /\ 0 <= norm_img[j].v
            /\ norm_img[j].v <= ONE

\* C8: for a grid whose samples are all equal normalize_image returns the
\* grid whose samples are all 0.0.
Flat(img) == \A a, b \in 1..Len(img) : img[a] = img[b]

C8_FlatGridIsZero ==
    (pc = "normalized" /\ Flat(image)) =>
        /\ Len(norm_img) = Len(image)
        /\ \A j \in 1..Len(norm_img) : norm_img[j] = Num(0)

\* C9: the title is the patient name with ^ and _ replaced by spaces and
\* then trimmed, followed by " | " and the likewise cleaned description when
\* there is one; neither part starts or ends with whitespace, and a title is
\* overlaid only when it is not empty.
ReplacedThenTrimmed(s) == Strip(Replace(Replace(s, "^", " "), "_", " "))

C9_TitleIsCleaned ==
    pc = "titled" =>
        /\ title =
             IF series_description # <<>>
             THEN ReplacedThenTrimmed(patient_name) \o <<" ", "|", " ">>
                      \o ReplacedThenTrimmed(series_description)
             ELSE ReplacedThenTrimmed(patient_name)
        /\ overlay <=> title # <<>>

\* C10: convert_to_pdf returns False exactly for an empty list, whatever was
\* appended, and in the script, which calls it with a non-empty list only,
\* bit 0 of the failure code is never set.
C10_FalseOnlyForEmptyList ==
    /\ result # "unset" => (result = "False" <=> dicom_files = <<>>)
    /\ (mode = "script" /\ failure_code # -1) => ~Bit(failure_code, 0)

\* The script computed its code after a conversion that appended no page.
C10_Witness ==
    /\ mode = "script"
    /\ pc = "done"
    /\ pages = <<>>
    /\ result = "True"
    /\ failure_code = 0

====
